---- MODULE Spec2Model ----
(***************************************************************************)
(* Counting contract (CosmWasm): three code generations 0.1.0, 0.2.0 and   *)
(* 0.3.0 of one contract, their entry points instantiate / execute /       *)
(* query / migrate, and the host runtime (bank, message dispatcher,        *)
(* all-or-nothing calls) that runs them.                                   *)
(***************************************************************************)
EXTENDS Integers, Sequences, FiniteSets, TLC

\* u64::MAX, scaled down: counter and countdown arithmetic is done on 0..U64Max.
U64Max == 2

\* Atoms the external account "alice" holds at genesis.
InitAtom == 2

----------------------------------------------------------------------------
\* Values

None == <<>>
Some(v) == <<v>>
IsSome(o) == Len(o) = 1
Unwrap(o) == o[1]

Coin(d, a) == [amount |-> a, denom |-> d]

Denoms == {"atom", "eth"}
\* query_all_balances lists the non-zero coins ordered by denomination.
DenomOrder == <<"atom", "eth">>

Users == {"owner", "alice"}
Contracts == {"contract0", "contract1"}
Accounts == Users \cup Contracts

\* Decimal: a fraction num/den; Uint128 * Decimal truncates.
Decimal(n, d) == [den |-> d, num |-> n]
MulDecimal(amount, part) == (amount * part.num) \div part.den

\* The code generations of the contract.
Generations == {"0.1.0", "0.2.0", "0.3.0"}

CONTRACT_NAME == "counting-contract"
CONTRACT_VERSION == "0.3.0"
CONTRACT_VERSION_0_1 == "0.1.0"

----------------------------------------------------------------------------
\* Storage of one contract instance: one optional value per key.

EmptyStorage ==
    [contract_info |-> None, counter |-> None, minimal_donation |-> None,
     owner |-> None, parent_donation |-> None, state |-> None]

\* cw2::set_contract_version
set_contract_version(storage, name, version) ==
    [storage EXCEPT !.contract_info = Some([contract |-> name, version |-> version])]

\* Results of an entry point: err = <<>> on success, <<kind, info>> on failure.
Ok(storage, msgs, attrs) ==
    [attrs |-> attrs, err |-> <<>>, msgs |-> msgs, storage |-> storage]
Err(kind, info) ==
    [attrs |-> <<>>, err |-> <<kind, info>>, msgs |-> <<>>, storage |-> EmptyStorage]
IsOk(r) == r.err = <<>>

\* Outbound messages of a response.
BankSend(to, amount) ==
    [funds |-> amount, kind |-> "bank_send", to |-> to]
\* Variant of WasmExecuteDonate: the forwarded coins are sent to the account
\* "owner" instead of being attached to a donate of the parent.
WasmExecuteDonate_SendToOwner(to, funds) ==
    [funds |-> funds, kind |-> "bank_send", to |-> "owner"]
WasmExecuteDonate(to, funds) ==
    [funds |-> funds, kind |-> "wasm_execute_donate", to |-> to]

\* u64::to_string, decimal digits.
RECURSIVE U64ToString(_)
U64ToString(n) ==
    LET digit(d) == CASE d = 0 -> "0" [] d = 1 -> "1" [] d = 2 -> "2" [] d = 3 -> "3"
                      [] d = 4 -> "4" [] d = 5 -> "5" [] d = 6 -> "6" [] d = 7 -> "7"
                      [] d = 8 -> "8" [] OTHER -> "9"
    IN IF n < 10 THEN digit(n) ELSE U64ToString(n \div 10) \o digit(n % 10)

----------------------------------------------------------------------------
\* Generation 0.3.0 (src/counting-contract-0.3)

\* u64 arithmetic: with overflow checks the contract aborts (panic), without
\* them the value wraps.  r = <<ok, value>>.
AddU64(a, b, checks) ==
    IF a + b > U64Max
    THEN IF checks THEN <<FALSE, 0>> ELSE <<TRUE, (a + b) % (U64Max + 1)>>
    ELSE <<TRUE, a + b>>
SubU64(a, b, checks) ==
    IF a - b < 0
    THEN IF checks THEN <<FALSE, 0>> ELSE <<TRUE, (a - b) % (U64Max + 1)>>
    ELSE <<TRUE, a - b>>

\* deps.api.addr_validate: an empty string is no address.
addr_validate(addr) == addr # ""

\* Variant of instantiate: the countdown to the parent is not stored.
instantiate_NoCountdown(storage, sender, counter, minimal_donation, parent) ==
    LET s1 == set_contract_version(storage, CONTRACT_NAME, CONTRACT_VERSION)
        s2 == [s1 EXCEPT !.state =
                  Some([counter |-> counter,
                        donating_parent |-> None,
                        minimal_donation |-> minimal_donation,
                        owner |-> sender])]
        s3 == IF IsSome(parent)
              THEN [s2 EXCEPT !.parent_donation =
                       Some([address |-> Unwrap(parent).addr,
                             donating_parent_period |-> Unwrap(parent).donating_period,
                             part |-> Unwrap(parent).part])]
              ELSE s2
    IN IF IsSome(parent) /\ ~addr_validate(Unwrap(parent).addr)
       THEN Err("GenericErr", "Invalid input: human address too short")
       ELSE Ok(s3, <<>>, <<>>)

\* Variant of instantiate: the ParentDonation record is not stored.
instantiate_NoParentRecord(storage, sender, counter, minimal_donation, parent) ==
    LET s1 == set_contract_version(storage, CONTRACT_NAME, CONTRACT_VERSION)
        s2 == [s1 EXCEPT !.state =
                  Some([counter |-> counter,
                        donating_parent |->
                            IF IsSome(parent) THEN Some(Unwrap(parent).donating_period)
                            ELSE None,
                        minimal_donation |-> minimal_donation,
                        owner |-> sender])]
    IN IF IsSome(parent) /\ ~addr_validate(Unwrap(parent).addr)
       THEN Err("GenericErr", "Invalid input: human address too short")
       ELSE Ok(s2, <<>>, <<>>)

\* parent: None or Some([addr, donating_period, part])
instantiate(storage, sender, counter, minimal_donation, parent) ==
    LET s1 == set_contract_version(storage, CONTRACT_NAME, CONTRACT_VERSION)
        s2 == [s1 EXCEPT !.state =
                  Some([counter |-> counter,
                        donating_parent |->
                            IF IsSome(parent) THEN Some(Unwrap(parent).donating_period)
                            ELSE None,
                        minimal_donation |-> minimal_donation,
                        owner |-> sender])]
        s3 == IF IsSome(parent)
              THEN [s2 EXCEPT !.parent_donation =
                       Some([address |-> Unwrap(parent).addr,
                             donating_parent_period |-> Unwrap(parent).donating_period,
                             part |-> Unwrap(parent).part])]
              ELSE s2
    IN IF IsSome(parent) /\ ~addr_validate(Unwrap(parent).addr)
       THEN Err("GenericErr", "Invalid input: human address too short")
       ELSE Ok(s3, <<>>, <<>>)

\* Variant of MeetsThreshold: any attached funds qualify.
MeetsThreshold_AnyFunds(minimal_donation, funds) ==
    \/ minimal_donation.amount = 0
    \/ funds # <<>>

\* The threshold test of donate.
MeetsThreshold(minimal_donation, funds) ==
    \/ minimal_donation.amount = 0
    \/ \E i \in 1..Len(funds) :
          /\ funds[i].denom = minimal_donation.denom
          /\ funds[i].amount >= minimal_donation.amount

\* Variant of ForwardedFunds: the whole balance is forwarded.
ForwardedFunds_Whole(balance, part) == balance

\* The coins forwarded to the parent: every coin of the balance times part.
ForwardedFunds(balance, part) ==
    [i \in 1..Len(balance) |->
        Coin(balance[i].denom, MulDecimal(balance[i].amount, part))]

DonateAttrs(resp_attrs, sender, counter) ==
    resp_attrs \o << <<"action", "donate">>, <<"sender", sender>>,
                     <<"counter", U64ToString(counter)>> >>

\* exec::donate.  balance: the contract's own balance as the querier reports
\* it (the attached funds are already credited).
\* Variant of donate: after forwarding, the countdown restarts from the
\* stored period.
donate_ResetCountdown(storage, balance, sender, funds, checks) ==
    IF ~IsSome(storage.state) THEN Err("NotFound", "state") ELSE
    LET state == Unwrap(storage.state) IN
    IF ~MeetsThreshold(state.minimal_donation, funds)
    THEN Ok(storage, <<>>, DonateAttrs(<<>>, sender, state.counter))
    ELSE
    LET inc == AddU64(state.counter, 1, checks) IN
    IF ~inc[1] THEN Err("Panic", "attempt to add with overflow") ELSE
    IF ~IsSome(state.donating_parent)
    THEN Ok([storage EXCEPT !.state = Some([state EXCEPT !.counter = inc[2]])],
            <<>>, DonateAttrs(<<>>, sender, inc[2]))
    ELSE
    LET dec == SubU64(Unwrap(state.donating_parent), 1, checks) IN
    IF ~dec[1] THEN Err("Panic", "attempt to subtract with overflow") ELSE
    LET state2 == [state EXCEPT !.counter = inc[2], !.donating_parent = Some(dec[2])]
        saved == [storage EXCEPT !.state = Some(state2)]
    IN
    IF dec[2] # 0
    THEN Ok(saved, <<>>, DonateAttrs(<<>>, sender, inc[2]))
    ELSE
    IF ~IsSome(storage.parent_donation) THEN Err("NotFound", "parent_donation") ELSE
    LET parent_donation == Unwrap(storage.parent_donation) IN
    Ok([storage EXCEPT !.state =
           Some([state2 EXCEPT !.donating_parent =
                    Some(parent_donation.donating_parent_period)])],
       << WasmExecuteDonate(parent_donation.address,
                            ForwardedFunds(balance, parent_donation.part)) >>,
       DonateAttrs(<< <<"donated_to_parent", parent_donation.address>> >>,
                   sender, inc[2]))

\* Variant of donate: when the countdown reaches 0 the response carries no
\* message for the parent.
donate_DropsForward(storage, balance, sender, funds, checks) ==
    IF ~IsSome(storage.state) THEN Err("NotFound", "state") ELSE
    LET state == Unwrap(storage.state) IN
    IF ~MeetsThreshold(state.minimal_donation, funds)
    THEN Ok(storage, <<>>, DonateAttrs(<<>>, sender, state.counter))
    ELSE
    LET inc == AddU64(state.counter, 1, checks) IN
    IF ~inc[1] THEN Err("Panic", "attempt to add with overflow") ELSE
    IF ~IsSome(state.donating_parent)
    THEN Ok([storage EXCEPT !.state = Some([state EXCEPT !.counter = inc[2]])],
            <<>>, DonateAttrs(<<>>, sender, inc[2]))
    ELSE
    LET dec == SubU64(Unwrap(state.donating_parent), 1, checks) IN
    IF ~dec[1] THEN Err("Panic", "attempt to subtract with overflow") ELSE
    LET state2 == [state EXCEPT !.counter = inc[2], !.donating_parent = Some(dec[2])]
        saved == [storage EXCEPT !.state = Some(state2)]
    IN
    IF dec[2] # 0
    THEN Ok(saved, <<>>, DonateAttrs(<<>>, sender, inc[2]))
    ELSE
    IF ~IsSome(storage.parent_donation) THEN Err("NotFound", "parent_donation") ELSE
    LET parent_donation == Unwrap(storage.parent_donation) IN
    Ok(saved, <<>>,
       DonateAttrs(<< <<"donated_to_parent", parent_donation.address>> >>,
                   sender, inc[2]))

\* Variant of donate: the branch that forwards returns without STATE.save.
donate_ForwardWithoutSave(storage, balance, sender, funds, checks) ==
    IF ~IsSome(storage.state) THEN Err("NotFound", "state") ELSE
    LET state == Unwrap(storage.state) IN
    IF ~MeetsThreshold(state.minimal_donation, funds)
    THEN Ok(storage, <<>>, DonateAttrs(<<>>, sender, state.counter))
    ELSE
    LET inc == AddU64(state.counter, 1, checks) IN
    IF ~inc[1] THEN Err("Panic", "attempt to add with overflow") ELSE
    IF ~IsSome(state.donating_parent)
    THEN Ok([storage EXCEPT !.state = Some([state EXCEPT !.counter = inc[2]])],
            <<>>, DonateAttrs(<<>>, sender, inc[2]))
    ELSE
    LET dec == SubU64(Unwrap(state.donating_parent), 1, checks) IN
    IF ~dec[1] THEN Err("Panic", "attempt to subtract with overflow") ELSE
    LET state2 == [state EXCEPT !.counter = inc[2], !.donating_parent = Some(dec[2])]
        saved == [storage EXCEPT !.state = Some(state2)]
    IN
    IF dec[2] # 0
    THEN Ok(saved, <<>>, DonateAttrs(<<>>, sender, inc[2]))
    ELSE
    IF ~IsSome(storage.parent_donation) THEN Err("NotFound", "parent_donation") ELSE
    LET parent_donation == Unwrap(storage.parent_donation) IN
    Ok(storage,
       << WasmExecuteDonate(parent_donation.address,
                            ForwardedFunds(balance, parent_donation.part)) >>,
       DonateAttrs(<< <<"donated_to_parent", parent_donation.address>> >>,
                   sender, inc[2]))

donate(storage, balance, sender, funds, checks) ==
    IF ~IsSome(storage.state) THEN Err("NotFound", "state") ELSE
    LET state == Unwrap(storage.state) IN
    IF ~MeetsThreshold(state.minimal_donation, funds)
    THEN Ok(storage, <<>>, DonateAttrs(<<>>, sender, state.counter))
    ELSE
    LET inc == AddU64(state.counter, 1, checks) IN
    IF ~inc[1] THEN Err("Panic", "attempt to add with overflow") ELSE
    IF ~IsSome(state.donating_parent)
    THEN Ok([storage EXCEPT !.state = Some([state EXCEPT !.counter = inc[2]])],
            <<>>, DonateAttrs(<<>>, sender, inc[2]))
    ELSE
    LET dec == SubU64(Unwrap(state.donating_parent), 1, checks) IN
    IF ~dec[1] THEN Err("Panic", "attempt to subtract with overflow") ELSE
    LET state2 == [state EXCEPT !.counter = inc[2], !.donating_parent = Some(dec[2])]
        saved == [storage EXCEPT !.state = Some(state2)]
    IN
    IF dec[2] # 0
    THEN Ok(saved, <<>>, DonateAttrs(<<>>, sender, inc[2]))
    ELSE
    IF ~IsSome(storage.parent_donation) THEN Err("NotFound", "parent_donation") ELSE
    LET parent_donation == Unwrap(storage.parent_donation) IN
    Ok(saved,
       << WasmExecuteDonate(parent_donation.address,
                            ForwardedFunds(balance, parent_donation.part)) >>,
       DonateAttrs(<< <<"donated_to_parent", parent_donation.address>> >>,
                   sender, inc[2]))

\* Variant of withdraw: only the first coin of the balance is sent.
withdraw_FirstCoin(storage, balance, sender) ==
    IF ~IsSome(storage.state) THEN Err("NotFound", "state") ELSE
    LET owner == Unwrap(storage.state).owner IN
    IF sender # owner THEN Err("Unauthorized", owner) ELSE
    Ok(storage, << BankSend(owner, IF balance = <<>> THEN <<>> ELSE <<balance[1]>>) >>,
       << <<"action", "withdraw">>, <<"sender", sender>> >>)

\* Variant of withdraw: the sender is not compared with the owner.
withdraw_AnyCaller(storage, balance, sender) ==
    IF ~IsSome(storage.state) THEN Err("NotFound", "state") ELSE
    LET owner == Unwrap(storage.state).owner IN
    Ok(storage, << BankSend(owner, balance) >>,
       << <<"action", "withdraw">>, <<"sender", sender>> >>)

\* exec::withdraw
withdraw(storage, balance, sender) ==
    IF ~IsSome(storage.state) THEN Err("NotFound", "state") ELSE
    LET owner == Unwrap(storage.state).owner IN
    IF sender # owner THEN Err("Unauthorized", owner) ELSE
    Ok(storage, << BankSend(owner, balance) >>,
       << <<"action", "withdraw">>, <<"sender", sender>> >>)

\* The limit withdraw_to looks up for a denomination: the first coin of
\* funds naming it, zero when none does.
RECURSIVE FindLimit(_, _, _)
FindLimit(funds, denom, i) ==
    IF i > Len(funds) THEN 0
    ELSE IF funds[i].denom = denom THEN funds[i].amount
    ELSE FindLimit(funds, denom, i + 1)

Min(a, b) == IF a <= b THEN a ELSE b

\* The local "balance" of withdraw_to after its clamping loop.
ClampedBalance(balance, funds) ==
    IF funds # <<>>
    THEN [i \in 1..Len(balance) |->
            Coin(balance[i].denom,
                 Min(balance[i].amount, FindLimit(funds, balance[i].denom, 1)))]
    ELSE balance

\* Variant of WithdrawToAmount: the whole balance is sent.
WithdrawToAmount_All(balance, funds) == balance

\* Variant of WithdrawToAmount: an empty limit means no limit.
WithdrawToAmount_EmptyMeansAll(balance, funds) ==
    IF funds = <<>> THEN balance ELSE funds

\* The amount withdraw_to puts in its BankMsg::Send: the argument funds, not
\* the clamped balance.
WithdrawToAmount(balance, funds) == funds

\* Variant of withdraw_to: the counter is cleared with the withdrawal.
withdraw_to_ClearsCounter(storage, balance, sender, receiver, funds) ==
    IF ~IsSome(storage.state) THEN Err("NotFound", "state") ELSE
    LET state == Unwrap(storage.state) IN
    IF sender # state.owner THEN Err("Unauthorized", state.owner) ELSE
    Ok([storage EXCEPT !.state = Some([state EXCEPT !.counter = 0])],
       << BankSend(receiver, WithdrawToAmount(balance, funds)) >>,
       << <<"action", "withdraw">>, <<"sender", sender>> >>)

\* exec::withdraw_to
withdraw_to(storage, balance, sender, receiver, funds) ==
    IF ~IsSome(storage.state) THEN Err("NotFound", "state") ELSE
    LET owner == Unwrap(storage.state).owner IN
    IF sender # owner THEN Err("Unauthorized", owner) ELSE
    Ok(storage, << BankSend(receiver, WithdrawToAmount(balance, funds)) >>,
       << <<"action", "withdraw">>, <<"sender", sender>> >>)

\* Variant of reset: the argument is added to the stored counter.
reset_Relative(storage, sender, counter) ==
    IF ~IsSome(storage.state) THEN Err("NotFound", "state") ELSE
    LET state == Unwrap(storage.state) IN
    IF sender # state.owner THEN Err("Unauthorized", state.owner) ELSE
    Ok([storage EXCEPT !.state =
           Some([state EXCEPT !.counter = (@ + counter) % (U64Max + 1)])], <<>>,
       << <<"action", "reset">>, <<"sender", sender>>,
          <<"counter", U64ToString(counter)>> >>)

\* Variant of reset: the ParentDonation record is removed with the reset.
reset_DropParent(storage, sender, counter) ==
    IF ~IsSome(storage.state) THEN Err("NotFound", "state") ELSE
    LET state == Unwrap(storage.state) IN
    IF sender # state.owner THEN Err("Unauthorized", state.owner) ELSE
    Ok([storage EXCEPT !.state = Some([state EXCEPT !.counter = counter]),
                       !.parent_donation = None], <<>>,
       << <<"action", "reset">>, <<"sender", sender>>,
          <<"counter", U64ToString(counter)>> >>)

\* Variant of reset: the sender is not compared with the owner.
reset_AnyCaller(storage, sender, counter) ==
    IF ~IsSome(storage.state) THEN Err("NotFound", "state") ELSE
    LET state == Unwrap(storage.state) IN
    Ok([storage EXCEPT !.state = Some([state EXCEPT !.counter = counter])], <<>>,
       << <<"action", "reset">>, <<"sender", sender>>,
          <<"counter", U64ToString(counter)>> >>)

\* exec::reset
reset(storage, sender, counter) ==
    IF ~IsSome(storage.state) THEN Err("NotFound", "state") ELSE
    LET state == Unwrap(storage.state) IN
    IF sender # state.owner THEN Err("Unauthorized", state.owner) ELSE
    Ok([storage EXCEPT !.state = Some([state EXCEPT !.counter = counter])], <<>>,
       << <<"action", "reset">>, <<"sender", sender>>,
          <<"counter", U64ToString(counter)>> >>)

\* Variant of value: the legacy counter record is read when there is one.
value_LegacyCounter(storage) ==
    IF IsSome(storage.counter) THEN <<TRUE, Unwrap(storage.counter)>>
    ELSE IF ~IsSome(storage.state) THEN <<FALSE, 0>>
    ELSE <<TRUE, Unwrap(storage.state).counter>>

\* query::value: <<ok, value>>
value(storage) ==
    IF ~IsSome(storage.state) THEN <<FALSE, 0>>
    ELSE <<TRUE, Unwrap(storage.state).counter>>

\* Variant of migrate_0_1_0: the amount of minimal_donation is not carried
\* over.
migrate_0_1_0_FreeDonation(storage) ==
    IF ~IsSome(storage.counter) THEN Err("NotFound", "counter") ELSE
    IF ~IsSome(storage.minimal_donation) THEN Err("NotFound", "minimal_donation") ELSE
    IF ~IsSome(storage.owner) THEN Err("NotFound", "owner") ELSE
    Ok([storage EXCEPT !.state =
           Some([counter |-> Unwrap(storage.counter),
                 donating_parent |-> None,
                 minimal_donation |->
                     Coin(Unwrap(storage.minimal_donation).denom, 0),
                 owner |-> Unwrap(storage.owner)])], <<>>, <<>>)

\* Variant of migrate_0_1_0: the upgraded contract gets a parent.
migrate_0_1_0_WithParent(storage) ==
    IF ~IsSome(storage.counter) THEN Err("NotFound", "counter") ELSE
    IF ~IsSome(storage.minimal_donation) THEN Err("NotFound", "minimal_donation") ELSE
    IF ~IsSome(storage.owner) THEN Err("NotFound", "owner") ELSE
    Ok([storage EXCEPT
           !.state =
               Some([counter |-> Unwrap(storage.counter),
                     donating_parent |-> Some(1),
                     minimal_donation |-> Unwrap(storage.minimal_donation),
                     owner |-> Unwrap(storage.owner)]),
           !.parent_donation =
               Some([address |-> "contract1", donating_parent_period |-> 1,
                     part |-> Decimal(1, 1)])], <<>>, <<>>)

\* Variant of migrate_0_1_0: a missing counter record reads as 0.
migrate_0_1_0_DefaultCounter(storage) ==
    IF ~IsSome(storage.minimal_donation) THEN Err("NotFound", "minimal_donation") ELSE
    IF ~IsSome(storage.owner) THEN Err("NotFound", "owner") ELSE
    Ok([storage EXCEPT !.state =
           Some([counter |-> IF IsSome(storage.counter) THEN Unwrap(storage.counter)
                             ELSE 0,
                 donating_parent |-> None,
                 minimal_donation |-> Unwrap(storage.minimal_donation),
                 owner |-> Unwrap(storage.owner)])], <<>>, <<>>)

\* Variant of migrate_0_1_0: the counter is not carried over.
migrate_0_1_0_FreshCounter(storage) ==
    IF ~IsSome(storage.counter) THEN Err("NotFound", "counter") ELSE
    IF ~IsSome(storage.minimal_donation) THEN Err("NotFound", "minimal_donation") ELSE
    IF ~IsSome(storage.owner) THEN Err("NotFound", "owner") ELSE
    Ok([storage EXCEPT !.state =
           Some([counter |-> 0,
                 donating_parent |-> None,
                 minimal_donation |-> Unwrap(storage.minimal_donation),
                 owner |-> Unwrap(storage.owner)])], <<>>, <<>>)

migrate_0_1_0(storage) ==
    IF ~IsSome(storage.counter) THEN Err("NotFound", "counter") ELSE
    IF ~IsSome(storage.minimal_donation) THEN Err("NotFound", "minimal_donation") ELSE
    IF ~IsSome(storage.owner) THEN Err("NotFound", "owner") ELSE
    Ok([storage EXCEPT !.state =
           Some([counter |-> Unwrap(storage.counter),
                 donating_parent |-> None,
                 minimal_donation |-> Unwrap(storage.minimal_donation),
                 owner |-> Unwrap(storage.owner)])], <<>>, <<>>)

\* OldState has the three fields counter, minimal_donation, owner; a record
\* under "state" that lacks one of them does not deserialize.
OldStateFields == {"counter", "minimal_donation", "owner"}

migrate_0_2_0(storage) ==
    IF ~IsSome(storage.state) THEN Err("NotFound", "state") ELSE
    LET old == Unwrap(storage.state) IN
    IF ~(OldStateFields \subseteq DOMAIN old)
    THEN Err("ParseErr", "state") ELSE
    Ok([storage EXCEPT !.state =
           Some([counter |-> old.counter,
                 donating_parent |-> None,
                 minimal_donation |-> old.minimal_donation,
                 owner |-> old.owner])], <<>>, <<>>)

\* The versions migrate has an upgrader for.
UpgradableVersions == {"0.1.0", "0.2.0"}

\* Variant of migrate: the current version goes through the 0.2.0 upgrader.
migrate_UpgradeCurrent(storage) ==
    IF ~IsSome(storage.contract_info) THEN Err("NotFound", "contract_info") ELSE
    LET contract_version == Unwrap(storage.contract_info) IN
    IF contract_version.contract # CONTRACT_NAME
    THEN Err("InvalidContract", contract_version.contract) ELSE
    IF contract_version.version \notin UpgradableVersions \cup {CONTRACT_VERSION}
    THEN Err("InvalidContractVersion", contract_version.version)
    ELSE
    LET resp == IF contract_version.version = "0.1.0"
                THEN migrate_0_1_0(storage) ELSE migrate_0_2_0(storage)
    IN IF ~IsOk(resp) THEN resp
       ELSE Ok(set_contract_version(resp.storage, CONTRACT_NAME, CONTRACT_VERSION),
               resp.msgs, resp.attrs)

\* Variant of migrate: a version without an upgrader is taken for the
\* current one.
migrate_AnyVersion(storage) ==
    IF ~IsSome(storage.contract_info) THEN Err("NotFound", "contract_info") ELSE
    LET contract_version == Unwrap(storage.contract_info) IN
    IF contract_version.contract # CONTRACT_NAME
    THEN Err("InvalidContract", contract_version.contract) ELSE
    IF contract_version.version \notin UpgradableVersions
    THEN Ok(storage, <<>>, <<>>)
    ELSE
    LET resp == IF contract_version.version = "0.1.0"
                THEN migrate_0_1_0(storage) ELSE migrate_0_2_0(storage)
    IN IF ~IsOk(resp) THEN resp
       ELSE Ok(set_contract_version(resp.storage, CONTRACT_NAME, CONTRACT_VERSION),
               resp.msgs, resp.attrs)

\* Variant of migrate: the marker is not written after an upgrade.
migrate_KeepMarker(storage) ==
    IF ~IsSome(storage.contract_info) THEN Err("NotFound", "contract_info") ELSE
    LET contract_version == Unwrap(storage.contract_info) IN
    IF contract_version.contract # CONTRACT_NAME
    THEN Err("InvalidContract", contract_version.contract) ELSE
    IF contract_version.version \notin UpgradableVersions
    THEN IF contract_version.version = CONTRACT_VERSION
         THEN Ok(storage, <<>>, <<>>)
         ELSE Err("InvalidContractVersion", contract_version.version)
    ELSE
    IF contract_version.version = "0.1.0"
    THEN migrate_0_1_0(storage) ELSE migrate_0_2_0(storage)

migrate(storage) ==
    IF ~IsSome(storage.contract_info) THEN Err("NotFound", "contract_info") ELSE
    LET contract_version == Unwrap(storage.contract_info) IN
    IF contract_version.contract # CONTRACT_NAME
    THEN Err("InvalidContract", contract_version.contract) ELSE
    IF contract_version.version \notin UpgradableVersions
    THEN IF contract_version.version = CONTRACT_VERSION
         THEN Ok(storage, <<>>, <<>>)
         ELSE Err("InvalidContractVersion", contract_version.version)
    ELSE
    LET resp == IF contract_version.version = "0.1.0"
                THEN migrate_0_1_0(storage) ELSE migrate_0_2_0(storage)
    IN IF ~IsOk(resp) THEN resp
       ELSE Ok(set_contract_version(resp.storage, CONTRACT_NAME, CONTRACT_VERSION),
               resp.msgs, resp.attrs)

----------------------------------------------------------------------------
\* Generation 0.2.0 (src/counting-contract-0.2): one composite record under
\* "state" without donating_parent, no version marker.

instantiate_0_2(storage, sender, counter, minimal_donation) ==
    Ok([storage EXCEPT !.state =
           Some([counter |-> counter, minimal_donation |-> minimal_donation,
                 owner |-> sender])], <<>>, <<>>)

migrate_0_2(storage) ==
    IF ~IsSome(storage.counter) THEN Err("NotFound", "counter") ELSE
    IF ~IsSome(storage.minimal_donation) THEN Err("NotFound", "minimal_donation") ELSE
    IF ~IsSome(storage.owner) THEN Err("NotFound", "owner") ELSE
    Ok([storage EXCEPT !.state =
           Some([counter |-> Unwrap(storage.counter),
                 minimal_donation |-> Unwrap(storage.minimal_donation),
                 owner |-> Unwrap(storage.owner)])], <<>>, <<>>)

donate_0_2(storage, sender, funds, checks) ==
    IF ~IsSome(storage.state) THEN Err("NotFound", "state") ELSE
    LET state == Unwrap(storage.state) IN
    IF ~MeetsThreshold(state.minimal_donation, funds)
    THEN Ok(storage, <<>>, DonateAttrs(<<>>, sender, state.counter))
    ELSE
    LET inc == AddU64(state.counter, 1, checks) IN
    IF ~inc[1] THEN Err("Panic", "attempt to add with overflow") ELSE
    Ok([storage EXCEPT !.state = Some([state EXCEPT !.counter = inc[2]])],
       <<>>, DonateAttrs(<<>>, sender, inc[2]))

----------------------------------------------------------------------------
\* Generation 0.1.0 (src/counting-contract): three records under "counter",
\* "minimal_donation" and "owner", version marker written by instantiate.

instantiate_0_1(storage, sender, counter, minimal_donation) ==
    LET s1 == set_contract_version(storage, CONTRACT_NAME, CONTRACT_VERSION_0_1)
    IN Ok([s1 EXCEPT !.counter = Some(counter),
                     !.minimal_donation = Some(minimal_donation),
                     !.owner = Some(sender)], <<>>, <<>>)

donate_0_1(storage, sender, funds, checks) ==
    IF ~IsSome(storage.counter) THEN Err("NotFound", "counter") ELSE
    IF ~IsSome(storage.minimal_donation) THEN Err("NotFound", "minimal_donation") ELSE
    LET counter == Unwrap(storage.counter)
        minimal_donation == Unwrap(storage.minimal_donation)
    IN
    IF ~MeetsThreshold(minimal_donation, funds)
    THEN Ok(storage, <<>>, DonateAttrs(<<>>, sender, counter))
    ELSE
    LET inc == AddU64(counter, 1, checks) IN
    IF ~inc[1] THEN Err("Panic", "attempt to add with overflow") ELSE
    Ok([storage EXCEPT !.counter = Some(inc[2])], <<>>,
       DonateAttrs(<<>>, sender, inc[2]))

withdraw_0_1(storage, balance, sender) ==
    IF ~IsSome(storage.owner) THEN Err("NotFound", "owner") ELSE
    LET owner == Unwrap(storage.owner) IN
    IF sender # owner THEN Err("Unauthorized", owner) ELSE
    Ok(storage, << BankSend(owner, balance) >>,
       << <<"action", "withdraw">>, <<"sender", sender>> >>)

withdraw_to_0_1(storage, balance, sender, receiver, funds) ==
    IF ~IsSome(storage.owner) THEN Err("NotFound", "owner") ELSE
    LET owner == Unwrap(storage.owner) IN
    IF sender # owner THEN Err("Unauthorized", owner) ELSE
    Ok(storage, << BankSend(receiver, WithdrawToAmount(balance, funds)) >>,
       << <<"action", "withdraw">>, <<"sender", sender>> >>)

reset_0_1(storage, sender, counter) ==
    IF ~IsSome(storage.owner) THEN Err("NotFound", "owner") ELSE
    LET owner == Unwrap(storage.owner) IN
    IF sender # owner THEN Err("Unauthorized", owner) ELSE
    Ok([storage EXCEPT !.counter = Some(counter)], <<>>,
       << <<"action", "reset">>, <<"sender", sender>>,
          <<"counter", U64ToString(counter)>> >>)

value_0_1(storage) ==
    IF ~IsSome(storage.counter) THEN <<FALSE, 0>>
    ELSE <<TRUE, Unwrap(storage.counter)>>

----------------------------------------------------------------------------
\* Entry points: the execute dispatch of each generation.
\* msg = [type, counter, receiver, funds]

MsgDonate == [counter |-> 0, funds |-> <<>>, receiver |-> "", type |-> "donate"]
MsgReset(counter) ==
    [counter |-> counter, funds |-> <<>>, receiver |-> "", type |-> "reset"]
\* {"reset": {}}: counter is #[serde(default)], an omitted counter reads as 0.
MsgResetOmitted == MsgReset(0)
MsgWithdraw == [counter |-> 0, funds |-> <<>>, receiver |-> "", type |-> "withdraw"]
MsgWithdrawTo(receiver, funds) ==
    [counter |-> 0, funds |-> funds, receiver |-> receiver, type |-> "withdraw_to"]

execute(storage, balance, sender, funds, msg, checks) ==
    CASE msg.type = "donate" -> donate(storage, balance, sender, funds, checks)
      [] msg.type = "reset" -> reset(storage, sender, msg.counter)
      [] msg.type = "withdraw" -> withdraw(storage, balance, sender)
      [] OTHER -> withdraw_to(storage, balance, sender, msg.receiver, msg.funds)

\* 0.2.0: withdraw, withdraw_to and reset have the text of the 0.3.0 ones.
execute_0_2(storage, balance, sender, funds, msg, checks) ==
    CASE msg.type = "donate" -> donate_0_2(storage, sender, funds, checks)
      [] msg.type = "reset" -> reset(storage, sender, msg.counter)
      [] msg.type = "withdraw" -> withdraw(storage, balance, sender)
      [] OTHER -> withdraw_to(storage, balance, sender, msg.receiver, msg.funds)

execute_0_1(storage, balance, sender, funds, msg, checks) ==
    CASE msg.type = "donate" -> donate_0_1(storage, sender, funds, checks)
      [] msg.type = "reset" -> reset_0_1(storage, sender, msg.counter)
      [] msg.type = "withdraw" -> withdraw_0_1(storage, balance, sender)
      [] OTHER -> withdraw_to_0_1(storage, balance, sender, msg.receiver, msg.funds)

----------------------------------------------------------------------------
\* Host runtime: bank and message dispatcher.

VARIABLES
    code,             \* code generation each contract address runs
    store,            \* storage of each contract address
    bank,             \* balance of each account, per denomination
    overflow_checks,  \* the build: arithmetic overflow aborts (TRUE) or wraps
    last              \* the last call the host processed, and its outcome

vars == <<code, store, bank, overflow_checks, last>>

\* Querier: all non-zero balances of an account, ordered by denomination.
query_all_balances(bnk, addr) ==
    SelectSeq([i \in 1..Len(DenomOrder) |-> Coin(DenomOrder[i], bnk[addr][DenomOrder[i]])],
              LAMBDA c : c.amount > 0)

\* Bank: zero coins are dropped; sending nothing at all is refused.
NormalizeAmount(amount) == SelectSeq(amount, LAMBDA c : c.amount > 0)

\* Take the coins out of an account one by one: <<ok, bank>>.
RECURSIVE Burn(_, _, _, _)
Burn(bnk, from, amount, i) ==
    IF i > Len(amount) THEN <<TRUE, bnk>>
    ELSE IF bnk[from][amount[i].denom] < amount[i].amount THEN <<FALSE, bnk>>
    ELSE Burn([bnk EXCEPT ![from][amount[i].denom] = @ - amount[i].amount],
              from, amount, i + 1)

RECURSIVE Mint(_, _, _, _)
Mint(bnk, to, amount, i) ==
    IF i > Len(amount) THEN bnk
    ELSE Mint([bnk EXCEPT ![to][amount[i].denom] = @ + amount[i].amount],
              to, amount, i + 1)

\* BankMsg::Send as the bank executes it: <<ok, bank>>.
BankTransfer(bnk, from, to, amount) ==
    LET coins == NormalizeAmount(amount) IN
    IF coins = <<>> THEN <<FALSE, bnk>>
    ELSE LET burnt == Burn(bnk, from, coins, 1) IN
         IF ~burnt[1] THEN <<FALSE, bnk>>
         ELSE <<TRUE, Mint(burnt[2], to, coins, 1)>>

\* Attached funds: an empty list moves nothing, anything else is a bank send.
SendFunds(bnk, from, to, funds) ==
    IF funds = <<>> THEN <<TRUE, bnk>> ELSE BankTransfer(bnk, from, to, funds)

Dispatch(gen, storage, balance, sender, funds, msg, checks) ==
    CASE gen = "0.3.0" -> execute(storage, balance, sender, funds, msg, checks)
      [] gen = "0.2.0" -> execute_0_2(storage, balance, sender, funds, msg, checks)
      [] gen = "0.1.0" -> execute_0_1(storage, balance, sender, funds, msg, checks)
      [] OTHER -> Err("NoSuchContract", "")

\* Nesting bound of the dispatcher.
MaxDepth == Cardinality(Contracts) + 2

\* One call of a contract with everything it causes.  w = [store, bank].
\* Result: [err, w, resp]; on an error w is the world the call started from.
RECURSIVE ExecuteContract(_, _, _, _, _, _)
RECURSIVE ProcessMsgs(_, _, _, _, _)

ProcessMsgs(w, c, msgs, i, depth) ==
    IF i > Len(msgs) THEN [err |-> <<>>, w |-> w]
    ELSE LET m == msgs[i] IN
         IF m.kind = "bank_send"
         THEN LET t == BankTransfer(w.bank, c, m.to, m.funds) IN
              IF ~t[1] THEN [err |-> <<"Bank", "send">>, w |-> w]
              ELSE ProcessMsgs([w EXCEPT !.bank = t[2]], c, msgs, i + 1, depth)
         ELSE LET r == ExecuteContract(w, m.to, c, MsgDonate, m.funds, depth - 1) IN
              IF r.err # <<>> THEN [err |-> r.err, w |-> w]
              ELSE ProcessMsgs(r.w, c, msgs, i + 1, depth)

ExecuteContract(w, c, sender, msg, funds, depth) ==
    LET fail(kind, info) == [err |-> <<kind, info>>, resp |-> Err(kind, info), w |-> w] IN
    IF depth = 0 THEN fail("Depth", "") ELSE
    IF c \notin Contracts THEN fail("NoSuchContract", c) ELSE
    IF code[c] \notin Generations THEN fail("NoSuchContract", c) ELSE
    LET paid == SendFunds(w.bank, sender, c, funds) IN
    IF ~paid[1] THEN fail("Bank", "funds") ELSE
    LET resp == Dispatch(code[c], w.store[c], query_all_balances(paid[2], c),
                         sender, funds, msg, overflow_checks)
    IN
    IF ~IsOk(resp) THEN [err |-> resp.err, resp |-> resp, w |-> w] ELSE
    LET w2 == [bank |-> paid[2], store |-> [w.store EXCEPT ![c] = resp.storage]]
        sub == ProcessMsgs(w2, c, resp.msgs, 1, depth)
    IN IF sub.err # <<>> THEN [err |-> sub.err, resp |-> resp, w |-> w]
       ELSE [err |-> <<>>, resp |-> resp, w |-> sub.w]

----------------------------------------------------------------------------
\* Inputs

CounterChoices == {0, U64Max}
MinimalDonations == {Coin("atom", 0), Coin("atom", 2)}
FundsChoices ==
    { <<>>, <<Coin("atom", 1)>>, <<Coin("atom", 2)>>, <<Coin("eth", 1)>>,
      <<Coin("eth", 1), Coin("atom", 2)>> }
\* Donations in atoms only.
AtomFunds == { <<>>, <<Coin("atom", 1)>>, <<Coin("atom", 2)>> }
\* Funds attached to reset / withdraw calls.
AttachChoices == { <<>>, <<Coin("atom", 1)>> }
\* withdraw_to arguments: <<receiver, funds>>
WithdrawToChoices ==
    { <<"alice", <<>> >>,
      <<"alice", <<Coin("atom", 0)>> >>,
      <<"alice", <<Coin("atom", 1)>> >>,
      <<"owner", <<Coin("atom", 1)>> >>,
      <<"alice", <<Coin("eth", 1)>> >>,
      <<"alice", <<Coin("atom", 1), Coin("eth", 1)>> >>,
      <<"alice", <<Coin("atom", 1), Coin("atom", 1)>> >>,
      <<"alice", <<Coin("atom", InitAtom + 1)>> >> }
Parts == {Decimal(1, 2), Decimal(1, 1)}
Periods == {1, 2}
Parent(addr, period, part) ==
    [addr |-> addr, donating_period |-> period, part |-> part]
\* Version markers of contracts of other code: <<contract, version>>
ForeignMarkers ==
    { <<"other-contract", "0.3.0">>, <<"other-contract", "0.1.0">>,
      <<"other-contract", "1.0.0">>, <<"counting-contract", "0.0.9">>,
      <<"counting-contract", "0.4.0">>, <<"counting-contract", "0.2.0">> }
\* Legacy records a contract of other code may hold under the marker of
\* 0.1.0: any of the three, never all of them.
LegacyKeys == {"counter", "minimal_donation", "owner"}
PartialLegacy == (SUBSET LegacyKeys) \ {LegacyKeys}
\* The parent of a contract that is instantiated under 0.3.0 next to
\* contracts of the older generations.
UpgradeParentChoices == {None, Some(Parent("contract1", 2, Decimal(1, 1)))}
\* The parent contract0 may be instantiated with.
ParentChoices ==
    {None} \cup {Some(Parent("contract1", p, q)) : p \in Periods, q \in Parts}
           \cup {Some(Parent("", 1, Decimal(1, 1)))}

\* Parents instantiate accepts without validation: a period of 0, a part
\* above 1.
ForwardParentChoices ==
    ParentChoices \cup { Some(Parent("contract1", 0, Decimal(1, 1))),
                         Some(Parent("contract1", 1, Decimal(2, 1))) }

\* Parent links between the two instances: contract0 is its own parent or
\* has the parent contract1; contract1 has no parent or the parent contract0.
LinkChoices0 ==
    { Some(Parent("contract0", 1, Decimal(1, 1))),
      Some(Parent("contract1", 1, Decimal(1, 1))),
      Some(Parent("contract1", 2, Decimal(1, 2))) }
LinkChoices1 ==
    { None,
      Some(Parent("contract0", 1, Decimal(1, 1))),
      Some(Parent("contract0", 2, Decimal(1, 1))) }

----------------------------------------------------------------------------
\* The calls the host admits, one at a time, each all-or-nothing.

Call(op, target, sender, funds, msg, err, msgs, attrs) ==
    [attrs |-> attrs, err |-> err, funds |-> funds, msg |-> msg, msgs |-> msgs,
     op |-> op, sender |-> sender, target |-> target]

Instantiated(c) == code[c] \in Generations

HostInstantiate(c, gen, sender, resp, arg) ==
    /\ IF IsOk(resp)
       THEN /\ code' = [code EXCEPT ![c] = gen]
            /\ store' = [store EXCEPT ![c] = resp.storage]
       ELSE UNCHANGED <<code, store>>
    /\ last' = Call("instantiate", c, sender, <<>>, arg, resp.err, resp.msgs, resp.attrs)
    /\ UNCHANGED <<bank, overflow_checks>>

Instantiate(c, sender, counter, minimal_donation, parent) ==
    /\ code[c] = "none"
    /\ HostInstantiate(c, "0.3.0", sender,
          instantiate(EmptyStorage, sender, counter, minimal_donation, parent),
        [counter |-> counter, gen |-> "0.3.0", minimal_donation |-> minimal_donation,
         parent |-> parent])

Instantiate_0_2(c, sender, counter, minimal_donation) ==
    /\ code[c] = "none"
    /\ HostInstantiate(c, "0.2.0", sender,
        instantiate_0_2(EmptyStorage, sender, counter, minimal_donation),
        [counter |-> counter, gen |-> "0.2.0", minimal_donation |-> minimal_donation,
         parent |-> None])

Instantiate_0_1(c, sender, counter, minimal_donation) ==
    /\ code[c] = "none"
    /\ HostInstantiate(c, "0.1.0", sender,
        instantiate_0_1(EmptyStorage, sender, counter, minimal_donation),
        [counter |-> counter, gen |-> "0.1.0", minimal_donation |-> minimal_donation,
         parent |-> None])

\* A contract of some other code (or of a version this repository does not
\* hold) that recorded its cw2 version marker; the host lets its admin migrate
\* it to this code.
InstantiateOther(c, marker) ==
    /\ code[c] = "none"
    /\ code' = [code EXCEPT ![c] = "other"]
    /\ store' = [store EXCEPT ![c] = set_contract_version(EmptyStorage, marker[1], marker[2])]
    /\ last' = Call("instantiate", c, "owner", <<>>,
                    [counter |-> 0, gen |-> "other", minimal_donation |-> Coin("", 0),
                     parent |-> None], <<>>, <<>>, <<>>)
    /\ UNCHANGED <<bank, overflow_checks>>

\* A contract of other code that recorded the marker of this contract at
\* 0.1.0 and holds only some of the legacy records.
InstantiatePartial(c, records) ==
    /\ code[c] = "none"
    /\ code' = [code EXCEPT ![c] = "other"]
    /\ store' = [store EXCEPT ![c] =
          [set_contract_version(EmptyStorage, CONTRACT_NAME, CONTRACT_VERSION_0_1)
              EXCEPT !.counter = IF "counter" \in records THEN Some(0) ELSE None,
                     !.minimal_donation =
                         IF "minimal_donation" \in records THEN Some(Coin("atom", 0))
                         ELSE None,
                     !.owner = IF "owner" \in records THEN Some("owner") ELSE None]]
    /\ last' = Call("instantiate", c, "owner", <<>>,
                    [counter |-> 0, gen |-> "other", minimal_donation |-> Coin("", 0),
                     parent |-> None], <<>>, <<>>, <<>>)
    /\ UNCHANGED <<bank, overflow_checks>>

HostExecute(op, c, sender, msg, funds) ==
    /\ LET r == ExecuteContract([bank |-> bank, store |-> store], c, sender, msg, funds,
                                MaxDepth)
       IN /\ store' = r.w.store
          /\ bank' = r.w.bank
          /\ last' = Call(op, c, sender, funds, msg, r.err, r.resp.msgs, r.resp.attrs)
    /\ UNCHANGED <<code, overflow_checks>>

Donate(c, sender, funds) ==
    /\ Instantiated(c)
    /\ HostExecute("donate", c, sender, MsgDonate, funds)
Reset(c, sender, funds, counter) ==
    /\ Instantiated(c)
    /\ HostExecute("reset", c, sender, MsgReset(counter), funds)
ResetOmitted(c, sender, funds) ==
    /\ Instantiated(c)
    /\ HostExecute("reset_omitted", c, sender, MsgResetOmitted, funds)
Withdraw(c, sender, funds) ==
    /\ Instantiated(c)
    /\ HostExecute("withdraw", c, sender, MsgWithdraw, funds)
WithdrawTo(c, sender, funds, receiver, limit) ==
    /\ Instantiated(c)
    /\ HostExecute("withdraw_to", c, sender, MsgWithdrawTo(receiver, limit), funds)

\* The host switches the code and runs the new code's migrate entry point; a
\* failure leaves the old code and the storage in place.
HostMigrate(c, gen, parent, resp) ==
    /\ IF IsOk(resp)
       THEN /\ code' = [code EXCEPT ![c] = gen]
            /\ store' = [store EXCEPT ![c] = resp.storage]
       ELSE UNCHANGED <<code, store>>
    /\ last' = Call("migrate", c, "admin", <<>>,
                    [from |-> code[c], gen |-> gen, parent |-> parent],
                    resp.err, resp.msgs, resp.attrs)
    /\ UNCHANGED <<bank, overflow_checks>>

\* MigrateMsg {parent} of 0.3.0: migrate takes the storage alone.
Migrate(c, parent) ==
    /\ code[c] # "none"
    /\ HostMigrate(c, "0.3.0", parent, migrate(store[c]))
Migrate_0_2(c) ==
    /\ code[c] \in UpgradableVersions
    /\ HostMigrate(c, "0.2.0", None, migrate_0_2(store[c]))

Query(c) ==
    /\ Instantiated(c)
    /\ LET v == IF code[c] = "0.1.0" THEN value_0_1(store[c]) ELSE value(store[c])
       IN last' = Call("query", c, "", <<>>, [value |-> v[2]],
                       IF v[1] THEN <<>> ELSE <<"NotFound", "state">>, <<>>, <<>>)
    /\ UNCHANGED <<code, store, bank, overflow_checks>>

NoCall == Call("none", "", "", <<>>, [value |-> 0], <<>>, <<>>, <<>>)

InitBank ==
    [a \in Accounts |->
        [d \in Denoms |-> IF a = "alice" THEN (IF d = "atom" THEN InitAtom ELSE 1) ELSE 0]]

Init ==
    /\ code = [c \in Contracts |-> "none"]
    /\ store = [c \in Contracts |-> EmptyStorage]
    /\ bank = InitBank
    /\ overflow_checks \in BOOLEAN
    /\ last = NoCall

\* Donations and the forwarding to a parent: contract0 runs 0.3.0, with or
\* without the parent contract1.
Next ==
    \/ \E n \in CounterChoices, m \in MinimalDonations, p \in ParentChoices :
          Instantiate("contract0", "owner", n, m, p)
    \/ \E m \in MinimalDonations : Instantiate("contract1", "owner", 0, m, None)
    \/ \E s \in Users, f \in AtomFunds : Donate("contract0", s, f)
    \/ \E s \in Users, n \in CounterChoices : Reset("contract0", s, <<>>, n)
    \/ \E s \in Users : ResetOmitted("contract0", s, <<>>)
    \/ \E s \in Users : Withdraw("contract0", s, <<>>)
    \/ Migrate("contract0", None)
    \/ Query("contract0")

Spec == Init /\ [][Next]_vars

\* Withdrawals: contract0 runs 0.3.0 without a parent; every call may carry
\* attached funds.
NextWithdraw ==
    \/ \E s \in Users, m \in MinimalDonations : Instantiate("contract0", s, 0, m, None)
    \/ \E s \in Users, f \in FundsChoices : Donate("contract0", s, f)
    \/ \E s \in Users, f \in AttachChoices : Reset("contract0", s, f, 0)
    \/ \E s \in Users, f \in AttachChoices : Withdraw("contract0", s, f)
    \/ \E s \in Users, a \in WithdrawToChoices :
          WithdrawTo("contract0", s, <<>>, a[1], a[2])

SpecWithdraw == Init /\ [][NextWithdraw]_vars

\* Forwarding: contract0 runs 0.3.0 with the parent contract1 and takes
\* donations of both denominations; the parent starts at any counter.
NextForward ==
    \/ \E m \in MinimalDonations, p \in ForwardParentChoices :
          Instantiate("contract0", "owner", 0, m, p)
    \/ \E n \in CounterChoices, m \in MinimalDonations :
          Instantiate("contract1", "owner", n, m, None)
    \/ \E s \in Users, f \in FundsChoices : Donate("contract0", s, f)

SpecForward == Init /\ [][NextForward]_vars

\* Parent links: both contracts run 0.3.0 and may forward to each other, or
\* contract0 to itself.
NextLinks ==
    \/ \E m \in MinimalDonations, p \in LinkChoices0 :
          Instantiate("contract0", "owner", 0, m, p)
    \/ \E m \in MinimalDonations, p \in LinkChoices1 :
          Instantiate("contract1", "owner", 0, m, p)
    \/ \E c \in Contracts, f \in AtomFunds : Donate(c, "alice", f)
    \/ \E s \in Users, f \in AttachChoices : Reset("contract0", s, f, 0)
    \/ Withdraw("contract0", "owner", <<>>)
    \/ WithdrawTo("contract0", "owner", <<>>, "alice", <<Coin("atom", 1)>>)
    \/ Migrate("contract0", None)

SpecLinks == Init /\ [][NextLinks]_vars

\* Upgrades: contract0 is instantiated under any generation (or is a contract
\* of other code) and migrated to a later one; under 0.3.0 it may have the
\* parent contract1.
NextMig ==
    \/ \E s \in Users, n \in CounterChoices, m \in MinimalDonations :
          Instantiate_0_1("contract0", s, n, m)
    \/ \E s \in Users, n \in CounterChoices, m \in MinimalDonations :
          Instantiate_0_2("contract0", s, n, m)
    \/ \E s \in Users, n \in CounterChoices, m \in MinimalDonations,
          p \in UpgradeParentChoices :
          Instantiate("contract0", s, n, m, p)
    \/ Instantiate("contract1", "owner", 0, Coin("atom", 0), None)
    \/ \E k \in ForeignMarkers : InstantiateOther("contract0", k)
    \/ \E r \in PartialLegacy : InstantiatePartial("contract0", r)
    \/ \E s \in Users, f \in AtomFunds : Donate("contract0", s, f)
    \/ \E s \in Users, n \in CounterChoices : Reset("contract0", s, <<>>, n)
    \/ \E s \in Users : Withdraw("contract0", s, <<>>)
    \/ \E s \in Users : WithdrawTo("contract0", s, <<>>, "alice", <<Coin("atom", 1)>>)
    \/ Migrate_0_2("contract0")
    \/ \E p \in UpgradeParentChoices : Migrate("contract0", p)
    \/ Query("contract0")

SpecMig == Init /\ [][NextMig]_vars

----------------------------------------------------------------------------
\* Properties

K == "contract0"

\* The composite State record of contract0 (generations 0.2.0 and 0.3.0).
StateOf(st) == Unwrap(st[K].state)

\* The host can move the attached funds of the call from the sender to contract0.
CanPay(sender, funds) == SendFunds(bank, sender, K, funds)[1]

\* A call of contract0 running 0.3.0 that reached the contract's entry point.
Reached(call, op) ==
    /\ call.op = op
    /\ call.target = K
    /\ code[K] = CONTRACT_VERSION
    /\ CanPay(call.sender, call.funds)

\* The amount of one denomination in a list of coins.
RECURSIVE Total(_, _, _)
Total(coins, denom, i) ==
    IF i > Len(coins) THEN 0
    ELSE (IF coins[i].denom = denom THEN coins[i].amount ELSE 0)
         + Total(coins, denom, i + 1)

\* C1: every donate call increments the stored counter by exactly 1 if and
\* only if minimal_donation.amount is 0 or the attached funds hold a coin of
\* the minimal_donation denomination with at least its amount; otherwise the
\* stored counter is unchanged.
C1_ThresholdInvariant ==
    [][Reached(last', "donate") =>
          IF MeetsThreshold(StateOf(store).minimal_donation, last'.funds)
          THEN StateOf(store').counter = StateOf(store).counter + 1
          ELSE StateOf(store').counter = StateOf(store).counter]_vars

OwnerOnly == {"reset", "withdraw", "withdraw_to"}

\* C2: reset, withdraw and withdraw_to called by anyone but the stored owner
\* fail with Unauthorized carrying the owner, and leave the storage of the
\* contract and every account balance as they were before the call.
C2_Unauthorized ==
    [][(/\ \E op \in OwnerOnly : Reached(last', op)
        /\ last'.sender # StateOf(store).owner)
       => /\ last'.err = <<"Unauthorized", StateOf(store).owner>>
          /\ store' = store
          /\ bank' = bank]_vars

\* An unauthorized withdraw that carried funds, on a contract holding coins.
C2_Witness ==
    /\ last.op = "withdraw"
    /\ last.target = K
    /\ last.sender # StateOf(store).owner
    /\ last.funds # <<>>
    /\ last.err = <<"Unauthorized", StateOf(store).owner>>
    /\ bank[K]["atom"] > 0

\* C3: a withdraw by the owner leaves contract0 with an empty balance, gives
\* the owner exactly what contract0 held, and changes no other balance.
C3_WithdrawAll ==
    [][(/\ Reached(last', "withdraw")
        /\ last'.sender = StateOf(store).owner)
       => \A a \in Accounts, d \in Denoms :
             bank'[a][d] =
                 IF a = K THEN 0
                 ELSE IF a = StateOf(store).owner THEN bank[a][d] + bank[K][d]
                 ELSE bank[a][d]]_vars

\* The owner withdrew a balance of two denominations.
C3_Witness ==
    /\ last.op = "withdraw"
    /\ last.target = K
    /\ last.err = <<>>
    /\ last.sender = StateOf(store).owner
    /\ Len(last.msgs[1].funds) = 2
    /\ \A d \in Denoms : bank[K][d] = 0 /\ bank[last.sender][d] > 0

\* The funds_limit of the call is non-empty and within the balance of contract0.
LimitWithinBalance(call) ==
    /\ call.msg.funds # <<>>
    /\ \A d \in Denoms : Total(call.msg.funds, d, 1) <= bank[K][d]

\* C4: a withdraw_to by the owner with a non-empty funds_limit that is within
\* the balance moves exactly the funds_limit amounts from contract0 to the
\* receiver; nothing else moves.
C4_WithdrawToWithinBalance ==
    [][(/\ Reached(last', "withdraw_to")
        /\ last'.sender = StateOf(store).owner
        /\ LimitWithinBalance(last'))
       => \A a \in Accounts, d \in Denoms :
             bank'[a][d] = bank[a][d]
                 + (IF a = last'.msg.receiver THEN Total(last'.msg.funds, d, 1) ELSE 0)
                 - (IF a = K THEN Total(last'.msg.funds, d, 1) ELSE 0)]_vars

\* The owner sent 1 atom of a balance of 2 atom and 1 eth to another account.
C4_Witness ==
    /\ last.op = "withdraw_to"
    /\ last.target = K
    /\ last.err = <<>>
    /\ last.sender = StateOf(store).owner
    /\ last.msg.receiver # last.sender
    /\ last.msg.funds = <<Coin("atom", 1)>>
    /\ bank[K]["atom"] = 1
    /\ bank[K]["eth"] = 1

\* C5: the transfer a withdraw_to by the owner with a non-empty funds_limit
\* asks for holds, of every denomination, the minimum of the balance of
\* contract0 and of the funds_limit amount (0 when funds_limit does not name
\* the denomination).
C5_TransferClamped ==
    [][(/\ Reached(last', "withdraw_to")
        /\ last'.sender = StateOf(store).owner
        /\ last'.msg.funds # <<>>)
       => /\ Len(last'.msgs) = 1
          /\ \A d \in Denoms :
                Total(last'.msgs[1].funds, d, 1) =
                    Min(bank[K][d], FindLimit(last'.msg.funds, d, 1))]_vars

\* C6: a withdraw_to by the owner with an empty funds_limit asks for a
\* transfer of nothing and leaves every balance as it was.
C6_EmptyLimit ==
    [][(/\ Reached(last', "withdraw_to")
        /\ last'.sender = StateOf(store).owner
        /\ last'.msg.funds = <<>>)
       => /\ Len(last'.msgs) = 1
          /\ \A d \in Denoms : Total(last'.msgs[1].funds, d, 1) = 0
          /\ bank' = bank]_vars

\* The owner called withdraw_to with an empty funds_limit while contract0
\* held coins of both denominations.
C6_Witness ==
    /\ last.op = "withdraw_to"
    /\ last.target = K
    /\ last.sender = StateOf(store).owner
    /\ last.msg.funds = <<>>
    /\ Len(last.msgs) = 1
    /\ \A d \in Denoms : bank[K][d] > 0

\* C7: migrating contract0 from the oldest schema succeeds and stores a State
\* whose counter, minimal_donation and owner are the values of the three
\* legacy records; migrating to 0.3.0 stores donating_parent = None and no
\* ParentDonation record.
C7_MigrateOldest ==
    [][(/\ last'.op = "migrate"
        /\ last'.target = K
        /\ code[K] = "0.1.0")
       => /\ last'.err = <<>>
          /\ code'[K] = last'.msg.gen
          /\ IsSome(store'[K].state)
          /\ StateOf(store').counter = Unwrap(store[K].counter)
          /\ StateOf(store').minimal_donation = Unwrap(store[K].minimal_donation)
          /\ StateOf(store').owner = Unwrap(store[K].owner)
          /\ last'.msg.gen = CONTRACT_VERSION =>
                /\ StateOf(store').donating_parent = None
                /\ store'[K].parent_donation = None]_vars

\* A contract instantiated under 0.1.0 with counter 0 took a donation and was
\* migrated to 0.3.0.
C7_Witness ==
    /\ last.op = "migrate"
    /\ last.target = K
    /\ last.err = <<>>
    /\ last.msg.from = "0.1.0"
    /\ last.msg.gen = CONTRACT_VERSION
    /\ StateOf(store).counter = 1
    /\ StateOf(store).minimal_donation.amount > 0

CurrentMarker == [contract |-> CONTRACT_NAME, version |-> CONTRACT_VERSION]

\* C8: migrate of 0.3.0 on a contract whose marker names this contract at
\* 0.3.0 succeeds and changes nothing of the storage.
C8_MigrateCurrentNoOp ==
    [][(/\ last'.op = "migrate"
        /\ last'.target = K
        /\ last'.msg.gen = CONTRACT_VERSION
        /\ store[K].contract_info = Some(CurrentMarker))
       => /\ last'.err = <<>>
          /\ store' = store
          /\ bank' = bank]_vars

\* migrate ran on a 0.3.0 contract with a parent, in the middle of a
\* countdown, after a donation.
C8_Witness ==
    /\ last.op = "migrate"
    /\ last.target = K
    /\ last.err = <<>>
    /\ store[K].contract_info = Some(CurrentMarker)
    /\ IsSome(store[K].parent_donation)
    /\ StateOf(store).donating_parent = Some(1)
    /\ StateOf(store).counter = 1

\* C9: migrate of 0.3.0 fails with InvalidContract when the marker names
\* another contract, and with InvalidContractVersion when it names this
\* contract at a version other than 0.1.0, 0.2.0 and 0.3.0; the storage,
\* marker included, stays as it was.
C9_MigrateRejects ==
    [][(/\ last'.op = "migrate"
        /\ last'.target = K
        /\ last'.msg.gen = CONTRACT_VERSION
        /\ IsSome(store[K].contract_info))
       => LET marker == Unwrap(store[K].contract_info) IN
          /\ marker.contract # CONTRACT_NAME =>
                /\ last'.err = <<"InvalidContract", marker.contract>>
                /\ store' = store
                /\ code' = code
          /\ (/\ marker.contract = CONTRACT_NAME
              /\ marker.version \notin {"0.1.0", "0.2.0", CONTRACT_VERSION}) =>
                /\ last'.err = <<"InvalidContractVersion", marker.version>>
                /\ store' = store
                /\ code' = code]_vars

\* migrate refused a marker naming another contract at the current version.
C9_Witness ==
    /\ last.op = "migrate"
    /\ last.target = K
    /\ last.err = <<"InvalidContract", "other-contract">>
    /\ Unwrap(store[K].contract_info).version = CONTRACT_VERSION

\* The forwarding to the parent fired in the last call.
Forwarded(call) ==
    /\ call.op = "donate"
    /\ call.target = K
    /\ call.err = <<>>
    /\ call.msgs # <<>>

\* C10: the State persisted by a donate that fired the forwarding has
\* donating_parent reset to ParentDonation.donating_parent_period.
C10_CountdownReset ==
    Forwarded(last) =>
        StateOf(store).donating_parent =
            Some(Unwrap(store[K].parent_donation).donating_parent_period)

\* contract0 holds no legacy record: it was instantiated under 0.2.0 or later.
NoLegacyRecords(st) ==
    /\ st[K].counter = None
    /\ st[K].minimal_donation = None
    /\ st[K].owner = None

\* C11: migrate of 0.2.0 on a contract the 0.2.0 code instantiated succeeds
\* and leaves the composite State as it was.
C11_MigrateSameVersion_0_2 ==
    [][(/\ last'.op = "migrate"
        /\ last'.target = K
        /\ last'.msg.gen = "0.2.0"
        /\ code[K] = "0.2.0"
        /\ NoLegacyRecords(store))
       => /\ last'.err = <<>>
          /\ store'[K].state = store[K].state]_vars

\* C12: migrate of 0.3.0 on a contract the 0.2.0 code instantiated succeeds;
\* the State keeps counter, minimal_donation and owner, has donating_parent =
\* None, and the marker names 0.3.0.
C12_MigrateFrom_0_2 ==
    [][(/\ last'.op = "migrate"
        /\ last'.target = K
        /\ last'.msg.gen = CONTRACT_VERSION
        /\ code[K] = "0.2.0"
        /\ NoLegacyRecords(store))
       => /\ last'.err = <<>>
          /\ StateOf(store').counter = StateOf(store).counter
          /\ StateOf(store').minimal_donation = StateOf(store).minimal_donation
          /\ StateOf(store').owner = StateOf(store).owner
          /\ StateOf(store').donating_parent = None
          /\ store'[K].contract_info =
                Some([contract |-> CONTRACT_NAME, version |-> CONTRACT_VERSION])]_vars

\* C13: migrate of 0.3.0 on a storage without a version marker does what the
\* 0.1.0 upgrader does on that storage (and then writes the marker); it does
\* not fail on the missing marker.
C13_NoMarkerAssumesOldest ==
    [][(/\ last'.op = "migrate"
        /\ last'.target = K
        /\ last'.msg.gen = CONTRACT_VERSION
        /\ store[K].contract_info = None)
       => LET r == migrate_0_1_0(store[K]) IN
          /\ last'.err = r.err
          /\ IsOk(r) =>
                store'[K] = set_contract_version(r.storage, CONTRACT_NAME,
                                                 CONTRACT_VERSION)]_vars

\* C14: donate never fails: every donate call that reaches contract0,
\* whoever calls and whatever funds it carries, returns success.
C14_DonateNeverFails ==
    [][Reached(last', "donate") => last'.err = <<>>]_vars

ResetOps == {"reset", "reset_omitted"}

\* C15: a reset by the owner stores exactly the counter it was given (0 when
\* the argument is omitted), changes nothing else of the storage or of the
\* balances, and the value query then returns that counter.
C15_ResetOverwrites ==
    [][(/\ \E op \in ResetOps : Reached(last', op)
        /\ last'.sender = StateOf(store).owner)
       => LET new_counter == IF last'.op = "reset_omitted" THEN 0
                             ELSE last'.msg.counter
          IN /\ last'.err = <<>>
             /\ store' = [store EXCEPT ![K].state =
                             Some([StateOf(store) EXCEPT !.counter = new_counter])]
             /\ value(store'[K]) = <<TRUE, new_counter>>
             /\ bank' = bank]_vars

\* The owner reset the counter to the largest value in the middle of a
\* countdown to the parent.
C15_Witness ==
    /\ last.op = "reset"
    /\ last.target = K
    /\ last.err = <<>>
    /\ last.msg.counter = U64Max
    /\ StateOf(store).counter = U64Max
    /\ StateOf(store).donating_parent = Some(1)
    /\ Unwrap(store[K].parent_donation).donating_parent_period = 2

\* The counter the running code of contract0 holds.
StoredCounter(st, gen) ==
    IF gen = "0.1.0" THEN Unwrap(st[K].counter) ELSE StateOf(st).counter

\* C16: the value query of an instantiated contract succeeds, returns the
\* stored counter and changes nothing.
C16_QueryValue ==
    [][(/\ last'.op = "query"
        /\ last'.target = K)
       => /\ last'.err = <<>>
          /\ last'.msg.value = StoredCounter(store, code[K])
          /\ store' = store
          /\ bank' = bank
          /\ code' = code]_vars

\* A query of a contract that was instantiated under 0.1.0 with counter 0,
\* migrated to 0.3.0 and then took a donation.
C16_Witness ==
    /\ last.op = "query"
    /\ last.target = K
    /\ last.err = <<>>
    /\ code[K] = CONTRACT_VERSION
    /\ store[K].counter = Some(0)
    /\ StateOf(store).counter = 1
    /\ last.msg.value = 1

\* An instantiate call of contract0 under 0.3.0.
InstantiateCall(call) ==
    /\ call.op = "instantiate"
    /\ call.target = K
    /\ call.msg.gen = CONTRACT_VERSION

\* What instantiate stores for the call: State, ParentDonation exactly when a
\* parent is given, and the current marker.
Instantiated_0_3(call, st) ==
    LET parent == call.msg.parent IN
    /\ st[K].state =
          Some([counter |-> call.msg.counter,
                donating_parent |->
                    IF parent = None THEN None ELSE Some(parent[1].donating_period),
                minimal_donation |-> call.msg.minimal_donation,
                owner |-> call.sender])
    /\ st[K].parent_donation =
          IF parent = None THEN None
          ELSE Some([address |-> parent[1].addr,
                     donating_parent_period |-> parent[1].donating_period,
                     part |-> parent[1].part])
    /\ st[K].contract_info =
          Some([contract |-> CONTRACT_NAME, version |-> CONTRACT_VERSION])
    /\ NoLegacyRecords(st)

\* C17 as stated: every instantiate call succeeds (the model has no storage
\* errors) and stores State, ParentDonation iff a parent is given, and the
\* current marker.
C17_InstantiateAlwaysSucceeds ==
    [][InstantiateCall(last') =>
          /\ last'.err = <<>>
          /\ code'[K] = CONTRACT_VERSION
          /\ Instantiated_0_3(last', store')]_vars

\* The parent of the call has an address that does not validate.
InvalidParent(call) ==
    /\ call.msg.parent # None
    /\ ~addr_validate(call.msg.parent[1].addr)

\* C17 amended: instantiate fails, storing nothing, when the parent address
\* does not validate; every other instantiate call succeeds and stores
\* State, ParentDonation iff a parent is given, and the current marker.
C17_Instantiate ==
    [][InstantiateCall(last') =>
          IF InvalidParent(last')
          THEN /\ last'.err # <<>>
               /\ last'.err[1] = "GenericErr"
               /\ store' = store
               /\ code' = code
          ELSE /\ last'.err = <<>>
               /\ code'[K] = CONTRACT_VERSION
               /\ Instantiated_0_3(last', store')]_vars

\* contract0 was instantiated with a parent of period 2 and part 1/2.
C17_Witness ==
    /\ InstantiateCall(last)
    /\ last.err = <<>>
    /\ last.msg.counter = U64Max
    /\ last.msg.parent = Some(Parent("contract1", 2, Decimal(1, 2)))
    /\ StateOf(store).donating_parent = Some(2)
    /\ IsSome(store[K].parent_donation)

\* C18: the version marker of an instantiated contract names the generation
\* whose schema holds the live state: 0.1.0 only under the three legacy
\* records, 0.2.0 only under the composite record without donating_parent,
\* 0.3.0 only under the composite record with donating_parent.
C18_MarkerMatchesSchema ==
    (Instantiated(K) /\ IsSome(store[K].contract_info)) =>
        Unwrap(store[K].contract_info).version = code[K]

\* The owner and the minimal donation the running code of contract0 holds.
OwnerOf(st, gen) ==
    IF gen = "0.1.0" THEN Unwrap(st[K].owner) ELSE StateOf(st).owner
MinimalDonationOf(st, gen) ==
    IF gen = "0.1.0" THEN Unwrap(st[K].minimal_donation)
    ELSE StateOf(st).minimal_donation

\* C19: instantiate stores its sender as owner and its minimal_donation, and
\* no later call (donate, reset, withdraw, withdraw_to, migrate, by anyone)
\* changes either.
C19_OwnerFixed ==
    [][/\ (/\ last'.op = "instantiate"
           /\ last'.target = K
           /\ last'.err = <<>>
           /\ code'[K] \in Generations)
          => /\ OwnerOf(store', code'[K]) = last'.sender
             /\ MinimalDonationOf(store', code'[K]) = last'.msg.minimal_donation
       /\ Instantiated(K)
          => /\ code'[K] \in Generations
             /\ OwnerOf(store', code'[K]) = OwnerOf(store, code[K])
             /\ MinimalDonationOf(store', code'[K]) =
                   MinimalDonationOf(store, code[K])]_vars

\* The owner alice withdrew from a contract that was instantiated under
\* 0.1.0 and migrated to 0.3.0.
C19_Witness ==
    /\ last.op = "withdraw"
    /\ last.target = K
    /\ last.err = <<>>
    /\ code[K] = CONTRACT_VERSION
    /\ store[K].owner = Some("alice")
    /\ StateOf(store).owner = "alice"
    /\ StateOf(store).minimal_donation.amount > 0

ExecuteOps == {"donate", "reset", "reset_omitted", "withdraw", "withdraw_to"}

\* The response of the call asks for a nested donate.
EmitsNestedDonate(call) ==
    \E i \in 1..Len(call.msgs) : call.msgs[i].kind = "wasm_execute_donate"

\* C20: on a contract with a parent, every qualifying donate takes 1 off the
\* countdown and emits the nested donate exactly when the countdown was 1
\* (the p-th qualifying donate); every other call leaves the countdown alone
\* and emits no nested donate.  Stated for a parent that is instantiated and
\* a counter below its maximum.
C20_CountdownSteps ==
    [][(/\ \E op \in ExecuteOps : Reached(last', op)
        /\ IsSome(store[K].parent_donation)
        /\ code[Unwrap(store[K].parent_donation).address] = CONTRACT_VERSION
        /\ StateOf(store).counter < U64Max)
       => LET n == Unwrap(StateOf(store).donating_parent) IN
          IF /\ last'.op = "donate"
             /\ MeetsThreshold(StateOf(store).minimal_donation, last'.funds)
          THEN /\ StateOf(store').donating_parent = Some(n - 1)
               /\ EmitsNestedDonate(last') <=> n = 1
          ELSE /\ StateOf(store').donating_parent = Some(n)
               /\ ~EmitsNestedDonate(last')]_vars

\* The amount of a denomination contract0 holds once the funds attached to
\* the call are credited.
Held(call, d) == bank[K][d] + Total(call.funds, d, 1)

\* C21: the nested call a donate emits is one Donate message to
\* ParentDonation.address that carries one coin for each denomination of the
\* balance of contract0 (attached funds included), of amount
\* floor(balance * part).
C21_ForwardedAmounts ==
    [][(/\ Reached(last', "donate")
        /\ EmitsNestedDonate(last'))
       => LET parent_donation == Unwrap(store[K].parent_donation)
              m == last'.msgs[1]
          IN /\ Len(last'.msgs) = 1
             /\ m.to = parent_donation.address
             /\ Len(m.funds) = Cardinality({d \in Denoms : Held(last', d) > 0})
             /\ \A d \in Denoms :
                   Total(m.funds, d, 1) =
                       (Held(last', d) * parent_donation.part.num)
                           \div parent_donation.part.den]_vars

\* A donate of 2 atom to contract0 holding 1 eth forwarded half the balance:
\* 1 atom and 0 eth, and the parent received the atom.
C21_Witness ==
    /\ Forwarded(last)
    /\ last.funds = <<Coin("atom", 2)>>
    /\ last.msgs[1].funds = <<Coin("atom", 1), Coin("eth", 0)>>
    /\ bank["contract1"]["atom"] = 1
    /\ bank[K]["atom"] = 1
    /\ bank[K]["eth"] = 1

\* C22: whenever the State of contract0 under 0.3.0 has a countdown
\* (donating_parent = Some), the ParentDonation record exists, and no donate
\* fails on loading it.
C22_CountdownHasParent ==
    /\ (/\ code[K] = CONTRACT_VERSION
        /\ IsSome(store[K].state)
        /\ IsSome(StateOf(store).donating_parent))
       => IsSome(store[K].parent_donation)
    /\ (last.op = "donate" /\ last.target = K)
       => last.err # <<"NotFound", "parent_donation">>

\* A donate that forwarded to the parent: the countdown reached 0 and the
\* ParentDonation record was loaded.
C22_Witness ==
    /\ Forwarded(last)
    /\ code[K] = CONTRACT_VERSION
    /\ StateOf(store).donating_parent = Some(0)
    /\ IsSome(store[K].parent_donation)
    /\ bank["contract1"]["atom"] > 0

\* The minimal donation is positive and no coin of the funds has its
\* denomination with at least its amount.
BelowThreshold(minimal_donation, funds) ==
    /\ minimal_donation.amount > 0
    /\ \A i \in 1..Len(funds) :
          \/ funds[i].denom # minimal_donation.denom
          \/ funds[i].amount < minimal_donation.amount

\* C23: a donate below the threshold succeeds, leaves the storage as it was
\* (counter and countdown included), emits no message, and moves nothing but
\* the attached funds, which contract0 keeps.
C23_BelowThresholdNoWrite ==
    [][(/\ Reached(last', "donate")
        /\ BelowThreshold(StateOf(store).minimal_donation, last'.funds))
       => /\ last'.err = <<>>
          /\ store' = store
          /\ last'.msgs = <<>>
          /\ bank' = SendFunds(bank, last'.sender, K, last'.funds)[2]]_vars

\* A donate of 1 eth, with a minimal donation of 2 atom, to a contract that
\* counted one donation and whose countdown stands at 1: the coin is kept,
\* counter and countdown stay.
C23_Witness ==
    /\ last.op = "donate"
    /\ last.target = K
    /\ last.err = <<>>
    /\ last.funds = <<Coin("eth", 1)>>
    /\ StateOf(store).minimal_donation = Coin("atom", 2)
    /\ StateOf(store).donating_parent = Some(1)
    /\ StateOf(store).counter = 1
    /\ bank[K]["eth"] = 1

\* The last call was a migrate of contract0 by the 0.3.0 code.
MigrateCall(call) ==
    /\ call.op = "migrate"
    /\ call.target = K
    /\ call.msg.gen = CONTRACT_VERSION

\* C24: a successful upgrade from marker 0.1.0 or 0.2.0 leaves the current
\* marker; from then on the marker stays, and every migrate succeeds
\* without touching the storage (no upgrader runs again).
C24_UpgradeOnce ==
    [][/\ (/\ MigrateCall(last')
           /\ last'.err = <<>>
           /\ IsSome(store[K].contract_info)
           /\ Unwrap(store[K].contract_info).version \in UpgradableVersions)
          => store'[K].contract_info = Some(CurrentMarker)
       /\ (/\ code[K] = CONTRACT_VERSION
           /\ store[K].contract_info = Some(CurrentMarker))
          => /\ store'[K].contract_info = Some(CurrentMarker)
             /\ MigrateCall(last') => (last'.err = <<>> /\ store' = store)]_vars

\* A second migrate of a contract that was upgraded from the legacy records
\* (counter 0) and then counted a donation: the counter is still 1.
C24_Witness ==
    /\ MigrateCall(last)
    /\ last.err = <<>>
    /\ last.msg.from = CONTRACT_VERSION
    /\ store[K].contract_info = Some(CurrentMarker)
    /\ store[K].counter = Some(0)
    /\ StateOf(store).counter = 1

\* The first legacy record the 0.1.0 upgrader fails to read: it loads counter,
\* minimal_donation and owner in this order.
FirstMissing(storage) ==
    IF storage.counter = None THEN "counter"
    ELSE IF storage.minimal_donation = None THEN "minimal_donation"
    ELSE IF storage.owner = None THEN "owner"
    ELSE ""

\* C25: when the marker names this contract at 0.1.0 and a legacy record is
\* missing, or at 0.2.0 and the composite record is missing, migrate fails
\* with NotFound for that record, and the storage (State and marker
\* included) and the code stay as they were.
C25_MigrateReadFailure ==
    [][(/\ MigrateCall(last')
        /\ IsSome(store[K].contract_info)
        /\ Unwrap(store[K].contract_info).contract = CONTRACT_NAME)
       => LET version == Unwrap(store[K].contract_info).version IN
          /\ (version = "0.1.0" /\ FirstMissing(store[K]) # "")
                => /\ last'.err = <<"NotFound", FirstMissing(store[K])>>
                   /\ store' = store
                   /\ code' = code
          /\ (version = "0.2.0" /\ store[K].state = None)
                => /\ last'.err = <<"NotFound", "state">>
                   /\ store' = store
                   /\ code' = code]_vars

\* migrate failed on the missing owner record of a storage that holds the
\* other two legacy records.
C25_Witness ==
    /\ MigrateCall(last)
    /\ last.err = <<"NotFound", "owner">>
    /\ store[K].counter = Some(0)
    /\ IsSome(store[K].minimal_donation)
    /\ store[K].state = None
    /\ Unwrap(store[K].contract_info).version = "0.1.0"

\* A donate of contract0 that counts and brings the countdown from 1 to 0.
FiresForward(call) ==
    /\ Reached(call, "donate")
    /\ IsSome(store[K].parent_donation)
    /\ StateOf(store).donating_parent = Some(1)
    /\ ~BelowThreshold(StateOf(store).minimal_donation, call.funds)

\* Cases in which the nested donate of such a call cannot succeed: the parent
\* is no instantiated contract; some forwarded amount exceeds what contract0
\* holds; the parent counts every donation and its counter is at the maximum
\* of a build with overflow checks.
NestedDonateFails(call) ==
    LET parent_donation == Unwrap(store[K].parent_donation)
        P == parent_donation.address
    IN \/ P \notin Contracts
       \/ code[P] \notin Generations
       \/ \E d \in Denoms :
             MulDecimal(Held(call, d), parent_donation.part) > Held(call, d)
       \/ /\ overflow_checks
          /\ P # K
          /\ code[P] = CONTRACT_VERSION
          /\ Unwrap(store[P].state).minimal_donation.amount = 0
          /\ Unwrap(store[P].state).counter = U64Max

\* C26: a donate of contract0 that brings the countdown to 0 while the nested
\* donate cannot succeed (parent not instantiated, forwarded coins not
\* payable, parent failing on its counter) fails as a whole, and so does
\* every donate whose response asked for the nested donate and met an error:
\* the storage of every contract and every balance are as before the call
\* (counter and countdown keep their values, the attached funds stay with the
\* sender, the parent receives nothing).
C26_ForwardFailureAborts ==
    [][(\/ FiresForward(last') /\ NestedDonateFails(last')
        \/ /\ Reached(last', "donate")
           /\ EmitsNestedDonate(last')
           /\ last'.err # <<>>)
       => /\ last'.err # <<>>
          /\ store' = store
          /\ bank' = bank]_vars

\* The nested donate failed in the parent, whose counter stands at the
\* maximum, after contract0 took 2 atom and asked to forward.
C26_Witness ==
    /\ last.op = "donate"
    /\ last.target = K
    /\ EmitsNestedDonate(last)
    /\ last.err = <<"Panic", "attempt to add with overflow">>
    /\ last.funds = <<Coin("atom", 2)>>
    /\ code["contract1"] = CONTRACT_VERSION
    /\ Unwrap(store["contract1"].state).counter = U64Max
    /\ Unwrap(store["contract1"].state).minimal_donation.amount = 0
    /\ StateOf(store).counter = 0
    /\ StateOf(store).donating_parent = Some(1)
    /\ bank["alice"]["atom"] = InitAtom
    /\ bank["contract1"]["atom"] = 0

WithdrawOps == {"withdraw", "withdraw_to"}

\* C27: no withdraw or withdraw_to call, by the owner or anyone else,
\* successful or not, changes the State record of contract0 (nor anything
\* else of its storage).
C27_WithdrawKeepsState ==
    [][(\E op \in WithdrawOps : Reached(last', op))
       => /\ store'[K].state = store[K].state
          /\ store' = store]_vars

\* The owner sent 1 atom out with withdraw_to after a counted donation, in
\* the middle of a countdown: the counter is still 1, the countdown still 1.
C27_Witness ==
    /\ last.op = "withdraw_to"
    /\ last.target = K
    /\ last.err = <<>>
    /\ code[K] = CONTRACT_VERSION
    /\ last.msg.funds = <<Coin("atom", 1)>>
    /\ bank[last.msg.receiver]["atom"] > 0
    /\ StateOf(store).counter = 1
    /\ StateOf(store).donating_parent = Some(1)
    /\ StateOf(store).minimal_donation = Coin("atom", 2)

\* C28: only an instantiate of contract0 writes its ParentDonation record:
\* every other call (donate, reset, withdraw, withdraw_to, migrate, query)
\* leaves the record, or its absence, as it was.
C28_ParentDonationReadOnly ==
    [][(last'.op # "instantiate" \/ last'.target # K)
       => store'[K].parent_donation = store[K].parent_donation]_vars

\* The owner reset the counter after a forwarding to the parent: the
\* ParentDonation record is the one instantiate wrote.
C28_Witness ==
    /\ last.op = "reset"
    /\ last.target = K
    /\ last.err = <<>>
    /\ code[K] = CONTRACT_VERSION
    /\ StateOf(store).donating_parent = Some(0)
    /\ bank["contract1"]["atom"] > 0
    /\ store[K].parent_donation =
          Some([address |-> "contract1", donating_parent_period |-> 2,
                part |-> Decimal(1, 1)])

\* C29: the parent of the migrate message is not applied: a successful
\* upgrade from 0.1.0 or 0.2.0 stores no countdown and no ParentDonation
\* record whatever the message holds, and a contract that was upgraded (it
\* holds the legacy records) never gets either and never emits a nested
\* donate.
C29_MigrateParentUnused ==
    [][/\ (/\ MigrateCall(last')
           /\ last'.err = <<>>
           /\ last'.msg.from \in UpgradableVersions)
          => /\ StateOf(store').donating_parent = None
             /\ store'[K].parent_donation = None
       /\ (/\ code[K] = CONTRACT_VERSION
           /\ IsSome(store[K].counter))
          => /\ StateOf(store').donating_parent = None
             /\ store'[K].parent_donation = None
             /\ ~EmitsNestedDonate(last')]_vars

\* contract0, brought from 0.1.0 to 0.2.0, was migrated to 0.3.0 by a message
\* naming the instantiated contract1 as parent: it has no parent.
C29_Witness ==
    /\ MigrateCall(last)
    /\ last.err = <<>>
    /\ last.msg.from = "0.2.0"
    /\ last.msg.parent = Some(Parent("contract1", 2, Decimal(1, 1)))
    /\ code["contract1"] = CONTRACT_VERSION
    /\ code[K] = CONTRACT_VERSION
    /\ StateOf(store).donating_parent = None
    /\ store[K].parent_donation = None

\* C30: for a contract instantiated under 0.1.0 and brought to 0.2.0, the
\* migrate of 0.3.0 succeeds and the State it stores has the counter, owner
\* and minimal_donation the contract held under 0.2.0 right before.
C30_ChainedUpgradeKeepsCounter ==
    [][(/\ MigrateCall(last')
        /\ code[K] = "0.2.0"
        /\ ~NoLegacyRecords(store))
       => /\ last'.err = <<>>
          /\ StateOf(store').counter = StateOf(store).counter
          /\ StateOf(store').owner = StateOf(store).owner
          /\ StateOf(store').minimal_donation = StateOf(store).minimal_donation]_vars

\* C31: a qualifying donate that executes on a contract with a countdown
\* finds the countdown at 1 or more.
C31_CountdownPositive ==
    [][(/\ Reached(last', "donate")
        /\ MeetsThreshold(StateOf(store).minimal_donation, last'.funds)
        /\ IsSome(StateOf(store).donating_parent))
       => Unwrap(StateOf(store).donating_parent) >= 1]_vars

\* The coins of one denomination the accounts of a set hold together.
RECURSIVE SumOver(_, _, _)
SumOver(bnk, d, accounts) ==
    IF accounts = {} THEN 0
    ELSE LET a == CHOOSE x \in accounts : TRUE
         IN bnk[a][d] + SumOver(bnk, d, accounts \ {a})

\* C32: no call changes the total of a denomination over all accounts; a
\* successful donate takes exactly the attached funds from its sender and
\* gives nothing to any other user account, and when the donated contract
\* has no parent the other contract's balance stays too.
C32_FundsConserved ==
    [][/\ \A d \in Denoms : SumOver(bank', d, Accounts) = SumOver(bank, d, Accounts)
       /\ (/\ last'.op = "donate"
           /\ last'.err = <<>>)
          => /\ \A u \in Users, d \in Denoms :
                   bank'[u][d] = bank[u][d]
                       - (IF u = last'.sender THEN Total(last'.funds, d, 1) ELSE 0)
             /\ store[last'.target].parent_donation = None
                   => \A c \in Contracts \ {last'.target} : bank'[c] = bank[c]]_vars

\* A donate of 2 atom to contract0 went to its parent contract1 and from
\* there back to contract0, the parent of contract1: the coins left alice
\* and are all in contract0.
C32_Witness ==
    /\ last.op = "donate"
    /\ last.target = K
    /\ last.err = <<>>
    /\ last.sender = "alice"
    /\ last.funds = <<Coin("atom", 2)>>
    /\ EmitsNestedDonate(last)
    /\ Unwrap(store[K].parent_donation).address = "contract1"
    /\ IsSome(store["contract1"].parent_donation)
    /\ Unwrap(store["contract1"].state).donating_parent = Some(0)
    /\ bank[K]["atom"] = 2
    /\ bank["contract1"]["atom"] = 0
    /\ bank["alice"]["atom"] = InitAtom - 2

\* C33: whenever the counter the running code holds changes, the call was a
\* successful qualifying donate that added 1 or a successful reset by the
\* owner that stored its argument.  Stated for a counter below its maximum.
C33_CounterChanges ==
    [][(/\ Instantiated(K)
        /\ code'[K] \in Generations
        /\ StoredCounter(store, code[K]) < U64Max
        /\ StoredCounter(store', code'[K]) # StoredCounter(store, code[K]))
       => /\ last'.target = K
          /\ last'.err = <<>>
          /\ \/ /\ last'.op = "donate"
                /\ MeetsThreshold(MinimalDonationOf(store, code[K]), last'.funds)
                /\ StoredCounter(store', code'[K]) = StoredCounter(store, code[K]) + 1
             \/ /\ last'.op = "reset"
                /\ last'.sender = OwnerOf(store, code[K])
                /\ StoredCounter(store', code'[K]) = last'.msg.counter]_vars

\* C34: when the balance of contract0 goes down in some denomination, the
\* call was a successful withdraw or withdraw_to by the owner, or a successful
\* donate of a contract with a parent that forwarded to it.
C34_BalanceDecrease ==
    [][(\E d \in Denoms : bank'[K][d] < bank[K][d])
       => /\ last'.target = K
          /\ last'.err = <<>>
          /\ Instantiated(K)
          /\ \/ /\ last'.op \in WithdrawOps
                /\ last'.sender = OwnerOf(store, code[K])
             \/ /\ last'.op = "donate"
                /\ code[K] = CONTRACT_VERSION
                /\ IsSome(store[K].parent_donation)
                /\ EmitsNestedDonate(last')]_vars

\* A donate of 1 atom by alice, who is not the owner, to contract0 holding
\* 1 atom forwarded both to the parent: contract0 is left with none.
C34_Witness ==
    /\ Forwarded(last)
    /\ code[K] = CONTRACT_VERSION
    /\ last.sender # StateOf(store).owner
    /\ last.funds = <<Coin("atom", 1)>>
    /\ last.msgs[1].funds = <<Coin("atom", 2)>>
    /\ bank[K]["atom"] = 0
    /\ bank["contract1"]["atom"] = 2

\* C35: the coins a donate asks to forward never exceed, in any
\* denomination, what contract0 holds (attached funds included).
C35_ForwardWithinBalance ==
    [][(/\ Reached(last', "donate")
        /\ EmitsNestedDonate(last'))
       => \A d \in Denoms : Total(last'.msgs[1].funds, d, 1) <= Held(last', d)]_vars

\* A qualifying donate applied to a State record: counter and countdown as
\* u64 values.
Counted(state) ==
    [state EXCEPT
        !.counter = (@ + 1) % (U64Max + 1),
        !.donating_parent =
            IF IsSome(@) THEN Some((Unwrap(@) - 1) % (U64Max + 1)) ELSE None]

\* C36: when a donate of contract0 forwards and succeeds, the parent ran a
\* donate called by contract0 with the forwarded coins attached, on the
\* storage contract0 had already written (counter + 1, countdown 0): the
\* parent's counter and countdown step exactly when the forwarded coins meet
\* the parent's minimal_donation, the forwarded coins are the parent's, and
\* nothing else changes.  Stated for a parent that does not forward further.
C36_NestedDonateOrdinary ==
    [][(/\ Reached(last', "donate")
        /\ last'.err = <<>>
        /\ EmitsNestedDonate(last'))
       => LET m == last'.msgs[1]
              P == m.to
              bank1 == SendFunds(bank, last'.sender, K, last'.funds)[2]
              bank2 == SendFunds(bank1, K, P, m.funds)[2]
              store1 == [store EXCEPT ![K].state = Some(Counted(StateOf(store)))]
              before == Unwrap(store1[P].state)
              meets == MeetsThreshold(before.minimal_donation, m.funds)
          IN /\ StateOf(store1).donating_parent = Some(0)
             /\ ~(meets /\ before.donating_parent = Some(1))
                   => /\ store' = [store1 EXCEPT ![P].state =
                                      Some(IF meets THEN Counted(before) ELSE before)]
                      /\ bank' = bank2]_vars

\* contract0 forwarded 2 atom to contract1, whose minimal donation is 2 atom
\* and whose own countdown stood at 2: contract1 counted the donation and
\* its countdown is 1.
C36_Witness ==
    /\ Forwarded(last)
    /\ last.msgs[1].to = "contract1"
    /\ last.msgs[1].funds = <<Coin("atom", 2)>>
    /\ Unwrap(store["contract1"].state).minimal_donation = Coin("atom", 2)
    /\ Unwrap(store["contract1"].state).counter = 1
    /\ Unwrap(store["contract1"].state).donating_parent = Some(1)
    /\ bank["contract1"]["atom"] = 2
    /\ StateOf(store).counter = 1

\* C37: every donate terminates: the chain of nested donates a call starts
\* never reaches the nesting bound of the dispatcher, whatever the parent
\* links are (contract0 its own parent, contract0 and contract1 each
\* other's parent).
C37_ChainsFinite == last.err # <<"Depth", "">>

\* contract0 is its own parent: its donate forwarded to itself, the nested
\* donate counted once more and wrapped the countdown, and the call ended.
C37_Witness ==
    /\ Forwarded(last)
    /\ last.msgs[1].to = K
    /\ Unwrap(store[K].parent_donation).address = K
    /\ StateOf(store).counter = 2
    /\ StateOf(store).donating_parent = Some(U64Max)

\* C38: the response of every successful donate ends with the attributes
\* action=donate, sender=<caller>, counter=<value>, where value is the
\* counter stored after the call, whether the donation counted or not.
C38_DonateAttributes ==
    [][(/\ Reached(last', "donate")
        /\ last'.err = <<>>)
       => /\ Len(last'.attrs) >= 3
          /\ SubSeq(last'.attrs, Len(last'.attrs) - 2, Len(last'.attrs))
               = << <<"action", "donate">>,
                    <<"sender", last'.sender>>,
                    <<"counter", U64ToString(StateOf(store').counter)>> >>]_vars

====
